---- MODULE Spec2Model ----
(***************************************************************************)
(* Model of the infrastructure-change pipeline of auto_infra.py: one run   *)
(* of main(), from sanity_checks() to the process exit, with the outcomes  *)
(* of the external tools (terraform, git, the DeepSeek service, the file   *)
(* system) chosen nondeterministically.                                    *)
(*   Spec      one run of main() of auto_infra.py                          *)
(*   SpecRuns  several runs of auto_infra.py one after the other           *)
(*   SpecAI    one run of main() of openai/textoutputprompt/infraai.py     *)
(*   SpecBucket  one call of generate_s3_bucket_name of create_s3_bucket.py *)
(***************************************************************************)
EXTENDS Integers, Sequences, FiniteSets, TLC

(***************************************************************************)
(* Bounds of the model.                                                    *)
(***************************************************************************)
MaxRevs == 2
MaxPaths == 2
MaxText == 5
MaxRuns == 2
MaxShortText == 2
MaxPrefixRun == 64
MaxPrefixTail == 1
MaxSuffix == 2

(***************************************************************************)
(* Characters.  A text is a sequence of characters; the triple-backtick    *)
(* fence is kept as the one element FENCE, and the credential prefix       *)
(* "sk-" as one element too.                                               *)
(***************************************************************************)
NL == "\n"
TAB == "\t"
FENCE == "fence"
None == <<"None">>

\* str.isspace() of one character, as used by str.strip()
IsSpace(c) == c \in {" ", NL, TAB}

RECURSIVE LStrip(_)
LStrip(s) == IF s # <<>> /\ IsSpace(Head(s)) THEN LStrip(Tail(s)) ELSE s

RECURSIVE RStrip(_)
RStrip(s) ==
    IF s # <<>> /\ IsSpace(s[Len(s)]) THEN RStrip(SubSeq(s, 1, Len(s) - 1)) ELSE s

\* str.strip()
Strip(s) == RStrip(LStrip(s))

\* str.split('\n'): always at least one element, '' for the empty string
RECURSIVE Split(_, _)
Split(s, cur) ==
    IF s = <<>> THEN <<cur>>
    ELSE IF Head(s) = NL THEN <<cur>> \o Split(Tail(s), <<>>)
    ELSE Split(Tail(s), Append(cur, Head(s)))

SplitLines(s) == Split(s, <<>>)

\* mutant of Join: the lines are joined last to first
RECURSIVE JoinReversed(_)
JoinReversed(lines) ==
    IF lines = <<>> THEN <<>>
    ELSE IF Len(lines) = 1 THEN lines[1]
    ELSE JoinReversed(Tail(lines)) \o <<NL>> \o lines[1]

\* "\n".join(lines)
RECURSIVE Join(_)
Join(lines) ==
    IF lines = <<>> THEN <<>>
    ELSE IF Len(lines) = 1 THEN lines[1]
    ELSE lines[1] \o <<NL>> \o Join(Tail(lines))

\* all sequences over S of length at most n
SeqsUpTo(S, n) == UNION {[1..k -> S] : k \in 0..n}

(***************************************************************************)
(* sanity_checks(): the credential check.                                  *)
(***************************************************************************)
NoError == [type |-> "", msg |-> ""]

Keys == {None, <<>>, <<" ">>, <<"x">>, <<" ", "sk-">>, <<"sk-", "x">>}

\* deepseek_key.startswith('sk-')
StartsWithSk(key) == key # <<>> /\ key[1] = "sk-"

\* mutant of KeyCheck: an unset credential is accepted
KeyCheckNoneAccepted(key) ==
    IF key = None THEN NoError
    ELSE IF Strip(key) = <<>> THEN [type |-> "ValueError", msg |-> "The DEEPSEEK_API_KEY is empty."]
    ELSE IF ~StartsWithSk(key) THEN [type |-> "ValueError", msg |-> "The DEEPSEEK_API_KEY is not in the correct format."]
    ELSE NoError

\* the ValueError raised for the credential, NoError when the credential passes
KeyCheck(key) ==
    IF key = None THEN [type |-> "ValueError", msg |-> "The DEEPSEEK_API_KEY is not set in the environment."]
    ELSE IF Strip(key) = <<>> THEN [type |-> "ValueError", msg |-> "The DEEPSEEK_API_KEY is empty."]
    ELSE IF ~StartsWithSk(key) THEN [type |-> "ValueError", msg |-> "The DEEPSEEK_API_KEY is not in the correct format."]
    ELSE NoError

ToolOutcomes == {"ok", "failed", "missing"}

\* the EnvironmentError raised for a tool-version check, NoError when it passes
ToolCheck(tool, outcome) ==
    IF outcome = "failed"
    THEN [type |-> "EnvironmentError", msg |-> IF tool = "terraform"
              THEN "Terraform is installed but the command failed"
              ELSE "Git is installed but the command failed"]
    ELSE IF outcome = "missing"
    THEN [type |-> "EnvironmentError", msg |-> IF tool = "terraform"
              THEN "Terraform is not installed or not found in the PATH."
              ELSE "Git is not installed or not found in the PATH."]
    ELSE NoError

(***************************************************************************)
(* get_git_changes(): the output of the git commands and its parsing.      *)
(***************************************************************************)
Digits == <<"0", "1", "2", "3", "4", "5", "6", "7", "8", "9">>

RECURSIVE Dec(_)
Dec(n) == IF n < 10 THEN <<Digits[n + 1]>> ELSE Dec(n \div 10) \o <<Digits[(n % 10) + 1]>>

\* stdout of `git rev-list --count HEAD` in a repository of n revisions
RevListStdout(n) == Dec(n) \o <<NL>>

DigitVal(c) == CHOOSE d \in 0..9 : Digits[d + 1] = c

IsDigits(s) == s # <<>> /\ \A i \in 1..Len(s) : \E d \in 1..10 : Digits[d] = s[i]

RECURSIVE IntOf(_)
IntOf(s) == IF s = <<>> THEN 0 ELSE 10 * IntOf(SubSeq(s, 1, Len(s) - 1)) + DigitVal(s[Len(s)])

\* int(result.stdout.strip()): -1 stands for the ValueError of a non-number
PyInt(stdout) == IF IsDigits(Strip(stdout)) THEN IntOf(Strip(stdout)) ELSE -1

\* one line of `git diff --name-status` per changed path
Entries == {<<"M", TAB, "a">>, <<"A", TAB, "b">>}

RECURSIVE DiffStdout(_)
DiffStdout(paths) ==
    IF paths = <<>> THEN <<>> ELSE Head(paths) \o <<NL>> \o DiffStdout(Tail(paths))

\* changes = result.stdout.strip().split('\n')
ParseDiff(stdout) == SplitLines(Strip(stdout))

\* mutant of TooFew: one revision is taken to be enough for a diff
TooFewOffByOne(count) == count < 1

\* `if count < 2`
TooFew(count) == count < 2

\* the repositories: fewer than two revisions have no diff to report
Repos ==
    {[revs |-> n, paths |-> p] : n \in 0..MaxRevs, p \in SeqsUpTo(Entries, MaxPaths)}

RepoOk(r) == r.revs < 2 => r.paths = <<>>

Call(cmd, ok) == [cmd |-> cmd, ok |-> ok]

\* get_git_changes(): the commands run, the exception raised and the value
\* returned, given the repository and whether each git command works
get_git_changes(r, headWorks, countWorks, diffWorks) ==
    LET headRc == IF r.revs >= 1 /\ headWorks THEN 0 ELSE 128
        countStdout == IF countWorks THEN RevListStdout(r.revs) ELSE <<>>
        count == PyInt(countStdout)
        diffStdout == IF diffWorks THEN DiffStdout(r.paths) ELSE <<>>
        c1 == <<Call("git rev-parse", headRc = 0)>>
        c2 == c1 \o <<Call("git rev-list", countWorks)>>
        c3 == c2 \o <<Call("git diff", diffWorks)>>
    IN  IF headRc # 0
        THEN [calls |-> c1, raised |-> NoError, changes |-> <<>>]
        ELSE IF count = -1
        THEN [calls |-> c2,
              raised |-> [type |-> "ValueError", msg |-> "invalid literal for int()"],
              changes |-> <<>>]
        ELSE IF TooFew(count)
        THEN [calls |-> c2, raised |-> NoError, changes |-> <<>>]
        ELSE [calls |-> c3, raised |-> NoError, changes |-> ParseDiff(diffStdout)]

(***************************************************************************)
(* analyze_changes_with_deepseek(): the JSON values a response can hold.   *)
(* A value is a record: t is its JSON type, items the elements of an       *)
(* array, n the number of an number, the size of an object or the length   *)
(* of a string.                                                            *)
(***************************************************************************)
JArray(items) == [t |-> "array", items |-> items, n |-> 0]
JObject(size) == [t |-> "object", items |-> <<>>, n |-> size]
JString(len) == [t |-> "string", items |-> <<>>, n |-> len]
JNumber(k) == [t |-> "number", items |-> <<>>, n |-> k]
JNull == [t |-> "null", items |-> <<>>, n |-> 0]

EmptyRecipe == JArray(<<>>)

\* mutant of Truthy: the empty recipe is not told from a recipe
TruthyAlways(v) == TRUE

\* Python's truth value of a parsed JSON value, as in `if not recipe`
Truthy(v) ==
    CASE v.t = "array" -> v.items # <<>>
      [] v.t = "null" -> FALSE
      [] OTHER -> v.n # 0

Actions == {"add", "modify", "delete"}

GoodRecord == [action |-> "add", resource_type |-> "storage", details |-> "bucket"]
BadAction == [action |-> "destroy", resource_type |-> "server", details |-> ""]
NoResourceType == [action |-> "modify", resource_type |-> "", details |-> "x"]

JsonValues ==
    {JArray(<<>>), JArray(<<GoodRecord>>), JArray(<<GoodRecord, GoodRecord>>),
     JArray(<<BadAction>>), JArray(<<GoodRecord, NoResourceType>>),
     JObject(0), JObject(1), JString(0), JString(1), JNumber(0), JNumber(5), JNull}

\* the content of a response: JSON text of a value, or text that is not JSON
AnalysisContents ==
    {[json |-> TRUE, value |-> v] : v \in JsonValues}
        \cup {[json |-> FALSE, value |-> JNull]}

\* the outcomes of the POST: no connection, an HTTP error status, a body
\* without choices[0].message.content, or a content
AnalysisResponses ==
    {[kind |-> k, content |-> [json |-> FALSE, value |-> JNull]] :
        k \in {"transport_error", "http_error", "no_content"}}
        \cup {[kind |-> "content", content |-> c] : c \in AnalysisContents}

\* the value analyze_changes_with_deepseek returns for a response
analyze_changes_with_deepseek(resp) ==
    IF resp.kind # "content" THEN EmptyRecipe
    ELSE IF ~resp.content.json THEN EmptyRecipe
    ELSE resp.content.value

(***************************************************************************)
(* synthesize_infra_with_deepseek()                                        *)
(***************************************************************************)
TextChars == {FENCE, NL, "x"}

Texts == SeqsUpTo(TextChars, MaxText)

SynthResponses ==
    {[kind |-> k, content |-> <<>>] : k \in {"transport_error", "http_error", "no_content"}}
        \cup {[kind |-> "content", content |-> c] : c \in Texts}

\* mutant of synthesize_infra_with_deepseek: the content is not stripped
SynthNoStrip(resp) ==
    IF resp.kind # "content" THEN <<>> ELSE resp.content

\* the text synthesize_infra_with_deepseek returns for a response
synthesize_infra_with_deepseek(resp) ==
    IF resp.kind # "content" THEN <<>> ELSE Strip(resp.content)

(***************************************************************************)
(* write_terraform_code() and the three lifecycle phases                   *)
(***************************************************************************)
NoFile == <<"no file">>

WriteOutcomes == {"ok", "open_failed", "write_failed"}

\* mutant of write_terraform_code: the file is opened for appending
WriteAppends(old, code, outcome) ==
    IF outcome = "ok" THEN (IF old = NoFile THEN code ELSE old \o code)
    ELSE IF outcome = "write_failed" THEN <<>>
    ELSE old

\* the content of infra.tf after write_terraform_code(code): open(filename, 'w')
\* truncates the file, so a write that fails after it leaves the file empty
write_terraform_code(old, code, outcome) ==
    IF outcome = "ok" THEN code
    ELSE IF outcome = "write_failed" THEN <<>>
    ELSE old

\* mutant of WriteRaises: the error of a failed write is swallowed
WriteNeverRaises(outcome) == FALSE

\* write_terraform_code re-raises the exception of a failed open or write
WriteRaises(outcome) == outcome # "ok"

PhaseOutcomes == {"ok", "failed", "exception"}

\* mutant of initialize_terraform: a failed init is reported as a success
InitAlwaysTrue(outcome) == TRUE

\* the value initialize_terraform returns
initialize_terraform(outcome) == outcome = "ok"

\* mutant of plan_terraform_changes: a failed plan is reported as a success
PlanAlwaysTrue(outcome) == TRUE

\* the value plan_terraform_changes returns
plan_terraform_changes(outcome) == outcome = "ok"

\* mutant of apply_terraform_changes: a successful apply is reported as failed
ApplyNeverTrue(outcome) == FALSE

\* the value apply_terraform_changes returns
apply_terraform_changes(outcome) == outcome = "ok"

(***************************************************************************)
(* The state of one run of main().                                         *)
(*   pc             the statement of main() to execute next                *)
(*   env_key        the value of DEEPSEEK_API_KEY in the environment       *)
(*   repo           the git repository: revisions and last diff            *)
(*   artifact       the content of infra.tf                                *)
(*   calls          the subprocesses, requests and file writes so far      *)
(*   raised         the exception that reached main()'s except clause      *)
(*   exit_status    the exit status of the process, -1 while it runs       *)
(*   completed      "Script completed successfully." was printed           *)
(*   changes, payload, recipe, terraform_code   the locals of main() and   *)
(*                  the change list sent for analysis                      *)
(*   analysis_resp, synth_resp   the responses of the service              *)
(*   env_tools      whether terraform and git are installed and work       *)
(*   run            the number of the run of the script, from 1            *)
(*   artifact_before   the content of infra.tf when the run started        *)
(*   last_write     the text of the most recent successful write of        *)
(*                  infra.tf, and whether the latest attempt succeeded     *)
(*   bucket_prefix, suffix_length   the arguments of                       *)
(*                  generate_s3_bucket_name                                *)
(*   bucket_name    the name it returned                                   *)
(***************************************************************************)
VARIABLES pc, env_key, repo, artifact, calls, raised, exit_status, completed,
          changes, payload, recipe, terraform_code, analysis_resp, synth_resp,
          env_tools, run, artifact_before, last_write,
          bucket_prefix, suffix_length, bucket_name

vars == <<pc, env_key, repo, artifact, calls, raised, exit_status, completed,
          changes, payload, recipe, terraform_code, analysis_resp, synth_resp,
          env_tools, run, artifact_before, last_write,
          bucket_prefix, suffix_length, bucket_name>>

\* the environment and the history, which no stage of main() changes
env == <<env_key, env_tools, repo, run, artifact_before,
         bucket_prefix, suffix_length, bucket_name>>

\* the pipeline scripts do not use create_s3_bucket.py
BucketIdle ==
    /\ bucket_prefix = <<>>
    /\ suffix_length = 0
    /\ bucket_name = <<>>

NoResponse == [kind |-> "none", content |-> [json |-> FALSE, value |-> JNull]]
NoSynthResponse == [kind |-> "none", content |-> <<>>]

OldArtifact == <<"x", NL>>

NoWrite == [text |-> NoFile, latest_ok |-> FALSE]

\* the state in which a script starts, at the statement `start`
InitAt(start) ==
    /\ pc = start
    /\ env_key \in Keys
    /\ repo \in {r \in Repos : RepoOk(r)}
    /\ artifact \in {NoFile, OldArtifact}
    /\ calls = <<>>
    /\ raised = NoError
    /\ exit_status = -1
    /\ completed = FALSE
    /\ changes = <<>>
    /\ payload = <<>>
    /\ recipe = EmptyRecipe
    /\ terraform_code = <<>>
    /\ analysis_resp = NoResponse
    /\ synth_resp = NoSynthResponse
    /\ env_tools \in [terraform : ToolOutcomes, git : ToolOutcomes]
    /\ run = 1
    /\ artifact_before = artifact
    /\ last_write = NoWrite

Init == InitAt("sanity_checks") /\ BucketIdle

\* `except Exception as e: ... sys.exit(1)`
Abort(e) ==
    /\ raised' = e
    /\ exit_status' = 1
    /\ pc' = "exited"

\* `return` from main(): the process ends with status 0
Return ==
    /\ exit_status' = 0
    /\ pc' = "exited"
    /\ UNCHANGED raised

\* mutant of sanity_checks: git is checked although the terraform check failed
SanityChecksNoFailFast(tf, git, key) ==
    LET c1 == <<Call("terraform -version", tf = "ok")>>
        c2 == c1 \o <<Call("git --version", git = "ok")>>
    IN  IF ToolCheck("git", git) # NoError
        THEN [calls |-> c2, raised |-> ToolCheck("git", git)]
        ELSE IF ToolCheck("terraform", tf) # NoError
        THEN [calls |-> c2, raised |-> ToolCheck("terraform", tf)]
        ELSE [calls |-> c2, raised |-> KeyCheck(key)]

\* sanity_checks(): the commands run and the exception raised
sanity_checks(tf, git, key) ==
    LET c1 == <<Call("terraform -version", tf = "ok")>>
        c2 == c1 \o <<Call("git --version", git = "ok")>>
    IN  IF ToolCheck("terraform", tf) # NoError
        THEN [calls |-> c1, raised |-> ToolCheck("terraform", tf)]
        ELSE IF ToolCheck("git", git) # NoError
        THEN [calls |-> c2, raised |-> ToolCheck("git", git)]
        ELSE [calls |-> c2, raised |-> KeyCheck(key)]

SanityChecks ==
    /\ pc = "sanity_checks"
    /\ LET r == sanity_checks(env_tools.terraform, env_tools.git, env_key)
       IN  /\ calls' = calls \o r.calls
           /\ IF r.raised # NoError
              THEN Abort(r.raised)
              ELSE /\ pc' = "get_git_changes"
                   /\ UNCHANGED <<raised, exit_status>>
    /\ UNCHANGED <<env, last_write, artifact, completed, changes, payload, recipe,
                   terraform_code, analysis_resp, synth_resp>>

GetGitChanges ==
    /\ pc = "get_git_changes"
    /\ \E headWorks \in BOOLEAN, countWorks \in BOOLEAN, diffWorks \in BOOLEAN :
        LET r == get_git_changes(repo, headWorks, countWorks, diffWorks)
        IN  /\ calls' = calls \o r.calls
            /\ changes' = r.changes
            /\ IF r.raised # NoError
               THEN Abort(r.raised)
               ELSE /\ pc' = "analyze"
                    /\ UNCHANGED <<raised, exit_status>>
    /\ UNCHANGED <<env, last_write, artifact, completed, payload, recipe,
                   terraform_code, analysis_resp, synth_resp>>

\* recipe = analyze_changes_with_deepseek(changes); if not recipe: return
AnalyzeChanges ==
    /\ pc = "analyze"
    /\ \E resp \in AnalysisResponses :
        /\ payload' = Join(changes)
        /\ analysis_resp' = resp
        /\ calls' = Append(calls, Call("POST analyze", resp.kind \in {"no_content", "content"}))
        /\ recipe' = analyze_changes_with_deepseek(resp)
        /\ IF Truthy(recipe')
           THEN pc' = "synthesize" /\ UNCHANGED <<raised, exit_status>>
           ELSE Return
    /\ UNCHANGED <<env, last_write, artifact, completed, changes, terraform_code, synth_resp>>

\* terraform_code = synthesize_infra_with_deepseek(recipe); if not terraform_code: return
SynthesizeInfraFrom(responses) ==
    /\ pc = "synthesize"
    /\ \E resp \in responses :
        /\ synth_resp' = resp
        /\ calls' = Append(calls, Call("POST synthesize", resp.kind \in {"no_content", "content"}))
        /\ terraform_code' = synthesize_infra_with_deepseek(resp)
        /\ IF terraform_code' # <<>>
           THEN pc' = "write" /\ UNCHANGED <<raised, exit_status>>
           ELSE Return
    /\ UNCHANGED <<env, last_write, artifact, completed, changes, payload, recipe, analysis_resp>>

SynthesizeInfra == SynthesizeInfraFrom(SynthResponses)

\* write_terraform_code(terraform_code)
WriteTerraformCode ==
    /\ pc = "write"
    /\ \E outcome \in WriteOutcomes :
        /\ artifact' = write_terraform_code(artifact, terraform_code, outcome)
        /\ calls' = Append(calls, Call("write infra.tf", outcome = "ok"))
        /\ last_write' = IF outcome = "ok"
                          THEN [text |-> terraform_code, latest_ok |-> TRUE]
                          ELSE [last_write EXCEPT !.latest_ok = FALSE]
        /\ IF WriteRaises(outcome)
           THEN Abort([type |-> "OSError", msg |-> outcome])
           ELSE pc' = "init" /\ UNCHANGED <<raised, exit_status>>
    /\ UNCHANGED <<env, completed, changes, payload, recipe, terraform_code,
                   analysis_resp, synth_resp>>

\* if not initialize_terraform(): return
InitializeTerraform ==
    /\ pc = "init"
    /\ \E outcome \in PhaseOutcomes :
        /\ calls' = Append(calls, Call("terraform init", outcome = "ok"))
        /\ IF initialize_terraform(outcome)
           THEN pc' = "plan" /\ UNCHANGED <<raised, exit_status>>
           ELSE Return
    /\ UNCHANGED <<env, last_write, artifact, completed, changes, payload, recipe,
                   terraform_code, analysis_resp, synth_resp>>

\* if not plan_terraform_changes(): return
PlanTerraformChanges ==
    /\ pc = "plan"
    /\ \E outcome \in PhaseOutcomes :
        /\ calls' = Append(calls, Call("terraform plan", outcome = "ok"))
        /\ IF plan_terraform_changes(outcome)
           THEN pc' = "apply" /\ UNCHANGED <<raised, exit_status>>
           ELSE Return
    /\ UNCHANGED <<env, last_write, artifact, completed, changes, payload, recipe,
                   terraform_code, analysis_resp, synth_resp>>

\* if not apply_terraform_changes(): return; print("Script completed successfully.")
ApplyTerraformChanges ==
    /\ pc = "apply"
    /\ \E outcome \in PhaseOutcomes :
        /\ calls' = Append(calls, Call("terraform apply", outcome = "ok"))
        /\ completed' = apply_terraform_changes(outcome)
        /\ Return
    /\ UNCHANGED <<env, last_write, artifact, changes, payload, recipe,
                   terraform_code, analysis_resp, synth_resp>>

Next ==
    \/ SanityChecks
    \/ GetGitChanges
    \/ AnalyzeChanges
    \/ SynthesizeInfra
    \/ WriteTerraformCode
    \/ InitializeTerraform
    \/ PlanTerraformChanges
    \/ ApplyTerraformChanges

Spec == Init /\ [][Next]_vars

(***************************************************************************)
(* Several runs of the script, one after the other, in an environment      *)
(* that passes the sanity checks.  Only infra.tf lasts from one run to     *)
(* the next.  The service answers the synthesis request with a short text. *)
(***************************************************************************)
ShortSynthResponses ==
    {[kind |-> k, content |-> <<>>] : k \in {"transport_error", "http_error", "no_content"}}
        \cup {[kind |-> "content", content |-> c] : c \in SeqsUpTo(TextChars, MaxShortText)}

SynthesizeInfraShort == SynthesizeInfraFrom(ShortSynthResponses)

WorkingTools == [terraform |-> "ok", git |-> "ok"]

InitRuns ==
    /\ Init
    /\ env_key = <<"sk-", "x">>
    /\ env_tools = WorkingTools
    /\ repo = [revs |-> 2, paths |-> <<<<"M", TAB, "a">>>>]
    /\ artifact = NoFile

\* the script is started again: `if __name__ == "__main__": main()`
Rerun ==
    /\ pc = "exited"
    /\ run < MaxRuns
    /\ run' = run + 1
    /\ pc' = "sanity_checks"
    /\ artifact_before' = artifact
    /\ calls' = <<>>
    /\ raised' = NoError
    /\ exit_status' = -1
    /\ completed' = FALSE
    /\ changes' = <<>>
    /\ payload' = <<>>
    /\ recipe' = EmptyRecipe
    /\ terraform_code' = <<>>
    /\ analysis_resp' = NoResponse
    /\ synth_resp' = NoSynthResponse
    /\ UNCHANGED <<env_key, env_tools, repo, artifact, last_write,
                   bucket_prefix, suffix_length, bucket_name>>

NextRuns ==
    \/ SanityChecks
    \/ GetGitChanges
    \/ AnalyzeChanges
    \/ SynthesizeInfraShort
    \/ WriteTerraformCode
    \/ InitializeTerraform
    \/ PlanTerraformChanges
    \/ ApplyTerraformChanges
    \/ Rerun

SpecRuns == InitRuns /\ [][NextRuns]_vars

(***************************************************************************)
(* One run of main() of openai/textoutputprompt/infraai.py, after the      *)
(* checks the module makes when it is loaded have passed.  The artifact    *)
(* file is main.tf.                                                        *)
(***************************************************************************)
InitAI ==
    /\ InitAt("ai_get_git_changes")
    /\ BucketIdle
    /\ env_key = <<"sk-", "x">>
    /\ env_tools = WorkingTools

\* get_git_changes() of infraai.py: the diff alone, its return code not read
ai_get_git_changes(r, diffWorks) ==
    ParseDiff(IF diffWorks /\ r.revs >= 2 THEN DiffStdout(r.paths) ELSE <<>>)

\* changes = get_git_changes(); if not changes or changes == ['']: return
AIGetGitChanges ==
    /\ pc = "ai_get_git_changes"
    /\ \E diffWorks \in BOOLEAN :
        /\ changes' = ai_get_git_changes(repo, diffWorks)
        /\ calls' = Append(calls, Call("git diff", diffWorks /\ repo.revs >= 2))
        /\ IF changes' = <<>> \/ changes' = <<<<>>>>
           THEN Return
           ELSE pc' = "ai_analyze" /\ UNCHANGED <<raised, exit_status>>
    /\ UNCHANGED <<env, last_write, artifact, completed, payload, recipe,
                   terraform_code, analysis_resp, synth_resp>>

\* the value analyze_changes_with_gpt returns for a response
analyze_changes_with_gpt(resp) ==
    IF resp.kind # "content" THEN EmptyRecipe
    ELSE IF ~resp.content.json THEN EmptyRecipe
    ELSE resp.content.value

\* recipe = analyze_changes_with_gpt(changes); if not recipe: return
AIAnalyzeChanges ==
    /\ pc = "ai_analyze"
    /\ \E resp \in AnalysisResponses :
        /\ payload' = Join(changes)
        /\ analysis_resp' = resp
        /\ calls' = Append(calls, Call("POST analyze", resp.kind \in {"no_content", "content"}))
        /\ recipe' = analyze_changes_with_gpt(resp)
        /\ IF Truthy(recipe')
           THEN pc' = "ai_synthesize" /\ UNCHANGED <<raised, exit_status>>
           ELSE Return
    /\ UNCHANGED <<env, last_write, artifact, completed, changes, terraform_code, synth_resp>>

\* synthesize_infra_with_gpt(recipe): the request, then the write of main.tf;
\* every exception is printed and swallowed, and nothing is returned
AISynthesizeInfra ==
    /\ pc = "ai_synthesize"
    /\ \E resp \in ShortSynthResponses, outcome \in WriteOutcomes :
        /\ synth_resp' = resp
        /\ IF resp.kind # "content"
           THEN /\ calls' = Append(calls, Call("POST synthesize", resp.kind = "no_content"))
                /\ UNCHANGED <<terraform_code, artifact, last_write>>
           ELSE /\ calls' = calls \o <<Call("POST synthesize", TRUE),
                                       Call("write main.tf", outcome = "ok")>>
                /\ terraform_code' = resp.content
                /\ artifact' = write_terraform_code(artifact, resp.content, outcome)
                /\ last_write' = IF outcome = "ok"
                                 THEN [text |-> resp.content, latest_ok |-> TRUE]
                                 ELSE [last_write EXCEPT !.latest_ok = FALSE]
    /\ pc' = "ai_validate"
    /\ UNCHANGED <<env, raised, exit_status, completed, changes, payload, recipe,
                   analysis_resp>>

\* validate_infra(): a placeholder that returns True
validate_infra == TRUE

\* deploy_infrastructure(): init, then apply, neither return code read; an
\* exception of subprocess.run is not caught and ends the process
deploy_infrastructure(initOutcome, applyOutcome) ==
    LET c1 == <<Call("terraform init", initOutcome = "ok")>>
        c2 == c1 \o <<Call("terraform apply", applyOutcome = "ok")>>
    IN  IF initOutcome = "exception"
        THEN [calls |-> c1, raised |-> [type |-> "FileNotFoundError", msg |-> "terraform"]]
        ELSE IF applyOutcome = "exception"
        THEN [calls |-> c2, raised |-> [type |-> "FileNotFoundError", msg |-> "terraform"]]
        ELSE [calls |-> c2, raised |-> NoError]

\* if validate_infra(): deploy_infrastructure()
AIDeploy ==
    /\ pc = "ai_validate"
    /\ IF validate_infra
       THEN \E initOutcome \in PhaseOutcomes, applyOutcome \in PhaseOutcomes :
               LET r == deploy_infrastructure(initOutcome, applyOutcome)
               IN  /\ calls' = calls \o r.calls
                   /\ IF r.raised # NoError THEN Abort(r.raised) ELSE Return
       ELSE UNCHANGED calls /\ Return
    /\ UNCHANGED <<env, last_write, artifact, completed, changes, payload, recipe,
                   terraform_code, analysis_resp, synth_resp>>

NextAI ==
    \/ AIGetGitChanges
    \/ AIAnalyzeChanges
    \/ AISynthesizeInfra
    \/ AIDeploy

SpecAI == InitAI /\ [][NextAI]_vars

(***************************************************************************)
(* generate_s3_bucket_name(prefix, length) of create_s3_bucket.py.  A      *)
(* prefix is a run of one character followed by a short tail, so that      *)
(* names longer than 63 characters occur.                                  *)
(***************************************************************************)
MaxNameLen == 63

LowerLetters == {"a", "z"}
DigitChars == {"0", "9"}
PrefixChars == {"a", "B", "9", "-", "_"}

\* str.lower() of one character
LowerChar(c) == IF c = "B" THEN "b" ELSE c

\* string.ascii_lowercase + string.digits + '-'
AllowedChars == LowerLetters \cup {"b"} \cup DigitChars \cup {"-"}

\* string.ascii_lowercase + string.digits, the characters of the suffix
SuffixChars == LowerLetters \cup DigitChars

\* str.isalnum() of one character
IsAlnum(c) == c \in LowerLetters \cup {"b", "B"} \cup DigitChars

RECURSIVE Repeat(_, _)
Repeat(c, n) == IF n = 0 THEN <<>> ELSE <<c>> \o Repeat(c, n - 1)

Prefixes ==
    {Repeat(c, n) \o t : c \in PrefixChars, n \in 0..MaxPrefixRun,
                         t \in SeqsUpTo(PrefixChars, MaxPrefixTail)}

\* prefix.lower(), then the characters that are allowed
RECURSIVE CleanPrefix(_)
CleanPrefix(p) ==
    IF p = <<>> THEN <<>>
    ELSE IF LowerChar(Head(p)) \in AllowedChars
    THEN <<LowerChar(Head(p))>> \o CleanPrefix(Tail(p))
    ELSE CleanPrefix(Tail(p))

\* the name returned for a prefix and the suffix that random.choices drew
generate_s3_bucket_name(prefix, suffix) ==
    LET joined == CleanPrefix(prefix) \o <<"-">> \o suffix
        cut == IF Len(joined) > MaxNameLen THEN SubSeq(joined, 1, MaxNameLen) ELSE joined
        first == IF ~IsAlnum(cut[1]) THEN <<"a">> \o Tail(cut) ELSE cut
    IN  IF ~IsAlnum(first[Len(first)])
        THEN SubSeq(first, 1, Len(first) - 1) \o <<"a">>
        ELSE first

InitBucket ==
    /\ InitAt("generate_s3_bucket_name")
    /\ env_key = <<"sk-", "x">>
    /\ env_tools = WorkingTools
    /\ repo = [revs |-> 0, paths |-> <<>>]
    /\ artifact = NoFile
    /\ bucket_prefix \in Prefixes
    /\ suffix_length \in 0..MaxSuffix
    /\ bucket_name = <<>>

\* bucket_name = generate_s3_bucket_name(prefix, length)
GenerateS3BucketName ==
    /\ pc = "generate_s3_bucket_name"
    /\ \E suffix \in [1..suffix_length -> SuffixChars] :
          bucket_name' = generate_s3_bucket_name(bucket_prefix, suffix)
    /\ pc' = "bucket_named"
    /\ UNCHANGED <<env_key, env_tools, repo, run, artifact_before, bucket_prefix,
                   suffix_length, last_write, artifact, calls, raised, exit_status,
                   completed, changes, payload, recipe, terraform_code,
                   analysis_resp, synth_resp>>

NextBucket == GenerateS3BucketName

SpecBucket == InitBucket /\ [][NextBucket]_vars

TypeOK ==
    /\ pc \in {"sanity_checks", "get_git_changes", "analyze", "synthesize", "write",
               "init", "plan", "apply", "exited",
               "ai_get_git_changes", "ai_analyze", "ai_synthesize", "ai_validate",
               "generate_s3_bucket_name", "bucket_named"}
    /\ exit_status \in {-1, 0, 1}
    /\ (pc = "exited") = (exit_status # -1)

(***************************************************************************)
(* Reading the record of calls.                                            *)
(***************************************************************************)
HasCall(cmd) == \E i \in 1..Len(calls) : calls[i].cmd = cmd
OkCall(cmd) == \E i \in 1..Len(calls) : calls[i].cmd = cmd /\ calls[i].ok
FailedCall(cmd) == \E i \in 1..Len(calls) : calls[i].cmd = cmd /\ ~calls[i].ok
CountCalls(cmd) == Cardinality({i \in 1..Len(calls) : calls[i].cmd = cmd})
OkBefore(cmd, i) == \E j \in 1..(i - 1) : calls[j].cmd = cmd /\ calls[j].ok

Phases == {"terraform init", "terraform plan", "terraform apply"}
VersionChecks == {"terraform -version", "git --version"}
Requests == {"POST analyze", "POST synthesize"}

\* sanity_checks() has returned normally: get_git_changes() has started
VerificationPassed == HasCall("git rev-parse")

\* get_git_changes() has returned normally
GitReturned == VerificationPassed /\ pc # "get_git_changes" /\ ~(pc = "exited" /\
    raised.type = "ValueError" /\ HasCall("git rev-list") /\ ~HasCall("POST analyze"))

(***************************************************************************)
(* C1: `terraform plan` is invoked only after a `terraform init` of the    *)
(* same run that succeeded, and `terraform apply` only after a `terraform  *)
(* plan` of the same run that succeeded, whatever the phases' outcomes.    *)
(***************************************************************************)
C1_PhaseOrder ==
    \A i \in 1..Len(calls) :
        /\ calls[i].cmd = "terraform plan" => OkBefore("terraform init", i)
        /\ calls[i].cmd = "terraform apply" => OkBefore("terraform plan", i)

\* init failed and the run is over: neither plan nor apply was invoked
C1_Witness ==
    /\ pc = "exited"
    /\ FailedCall("terraform init")
    /\ ~HasCall("terraform plan")
    /\ ~HasCall("terraform apply")

(***************************************************************************)
(* C2: a failed init, plan or apply is the last IaC engine invocation of   *)
(* the run, and each of init, plan and apply is invoked at most once.      *)
(***************************************************************************)
C2_FailedAbsorbing ==
    /\ \A i \in 1..Len(calls) :
          (calls[i].cmd \in Phases /\ ~calls[i].ok) =>
              \A j \in (i + 1)..Len(calls) : calls[j].cmd \notin Phases
    /\ \A ph \in Phases : CountCalls(ph) <= 1

\* plan failed after a successful init and the run is over
C2_Witness ==
    /\ pc = "exited"
    /\ OkCall("terraform init")
    /\ FailedCall("terraform plan")
    /\ calls[Len(calls)].cmd = "terraform plan"

(***************************************************************************)
(* C3: when a check of sanity_checks() fails (a tool missing or failing,   *)
(* the credential unset, blank or not starting with "sk-") the run ends    *)
(* with a non-zero exit status and has invoked nothing but the tool        *)
(* version checks; with an unset credential these are the only             *)
(* subprocesses of the run.                                                *)
(***************************************************************************)
BadCredential ==
    \/ env_key = None
    \/ \A i \in 1..Len(env_key) : env_key[i] \in {" ", NL, TAB}
    \/ env_key[1] # "sk-"

EnvironmentBad ==
    \/ FailedCall("terraform -version")
    \/ FailedCall("git --version")
    \/ BadCredential

C3_VerificationGate ==
    (pc # "sanity_checks" /\ EnvironmentBad) =>
        /\ pc = "exited"
        /\ exit_status = 1
        /\ \A i \in 1..Len(calls) : calls[i].cmd \in VersionChecks
        /\ Len(calls) <= 2

\* the credential is unset, both tools work, and the run is over
C3_Witness ==
    /\ pc = "exited"
    /\ env_key = None
    /\ OkCall("terraform -version")
    /\ OkCall("git --version")
    /\ Len(calls) = 2

(***************************************************************************)
(* C4: when environment verification passes the exit status is 0,          *)
(* whatever later stage fails.                                             *)
(***************************************************************************)
C4_OnlyVerificationFailureExitsNonZero ==
    (pc = "exited" /\ VerificationPassed) => exit_status = 0

(***************************************************************************)
(* C5: for every malformed response (not JSON, JSON that is not an array,  *)
(* no choices[0].message.content) and every transport or HTTP failure,     *)
(* analyze_changes_with_deepseek returns the empty recipe (a value that    *)
(* main() takes for "no recipe").                                          *)
(***************************************************************************)
Malformed(resp) ==
    \/ resp.kind \in {"transport_error", "http_error", "no_content"}
    \/ ~resp.content.json
    \/ resp.content.value.t # "array"

C5_MalformedGivesEmptyRecipe ==
    (HasCall("POST analyze") /\ Malformed(analysis_resp)) => ~Truthy(recipe)

(***************************************************************************)
(* C6: every recipe returned by the Analyzer is an array, empty or with    *)
(* every element having an action in {add, modify, delete} and a non-empty *)
(* resource_type.                                                          *)
(***************************************************************************)
ValidRecord(rec) == rec.action \in Actions /\ rec.resource_type # ""

C6_RecipeInvariant ==
    Truthy(recipe) =>
        /\ recipe.t = "array"
        /\ \A i \in 1..Len(recipe.items) : ValidRecord(recipe.items[i])

(***************************************************************************)
(* C7: the text written to the artifact file is the response without its   *)
(* first and last lines when the response begins and ends with a fence     *)
(* line, and the response unchanged otherwise.                             *)
(***************************************************************************)
Fenced(text) ==
    LET lines == SplitLines(text)
    IN  /\ Len(lines) >= 2
        /\ lines[1] # <<>> /\ lines[1][1] = FENCE
        /\ lines[Len(lines)] = <<FENCE>>

FenceStripped(text) ==
    LET lines == SplitLines(text)
    IN  IF Fenced(text) THEN Join(SubSeq(lines, 2, Len(lines) - 1)) ELSE text

C7_FenceStripping ==
    OkCall("write infra.tf") => artifact = FenceStripped(synth_resp.content)

(***************************************************************************)
(* C8: when the repository has fewer than two revisions and the change     *)
(* source returns the empty sequence, the run issues no request to the     *)
(* service, writes no artifact, invokes no lifecycle phase and exits with  *)
(* status 0.                                                               *)
(***************************************************************************)
C8_ZeroItemRun ==
    (GitReturned /\ repo.revs < 2 /\ changes = <<>>) =>
        /\ \A i \in 1..Len(calls) :
              calls[i].cmd \notin Requests \cup Phases \cup {"write infra.tf"}
        /\ pc = "exited" => exit_status = 0

(***************************************************************************)
(* C9: with fewer than two revisions get_git_changes returns the empty     *)
(* sequence without raising and without running the diff; when HEAD does   *)
(* not resolve the revision count is not queried either.                   *)
(***************************************************************************)
C9_FewerThanTwoRevisions ==
    /\ (VerificationPassed /\ repo.revs < 2
          /\ (HasCall("git rev-list") => OkCall("git rev-list"))) =>
            /\ changes = <<>>
            /\ ~HasCall("git diff")
            /\ GitReturned
    /\ FailedCall("git rev-parse") =>
            /\ changes = <<>>
            /\ ~HasCall("git rev-list")
            /\ ~HasCall("git diff")
            /\ GitReturned

\* one revision: HEAD resolved, the count was read, and the function returned
C9_Witness ==
    /\ pc = "analyze"
    /\ repo.revs = 1
    /\ OkCall("git rev-parse")
    /\ OkCall("git rev-list")
    /\ changes = <<>>

(***************************************************************************)
(* C10: with at least two revisions the change source returns one          *)
(* descriptor per changed path of the diff, in the diff's order; when the  *)
(* diff reports no changed path the result is empty and nothing is sent    *)
(* for analysis.                                                           *)
(***************************************************************************)
C10_OneDescriptorPerPath ==
    (GitReturned /\ repo.revs >= 2 /\ OkCall("git diff")) =>
        /\ Len(changes) = Len(repo.paths)
        /\ changes = repo.paths
        /\ repo.paths = <<>> => ~HasCall("POST analyze")

(***************************************************************************)
(* C11: when a git command of the change source fails (HEAD verification   *)
(* in a repository that has commits, the revision count, or the diff), no  *)
(* analysis request, synthesis request, artifact write or lifecycle phase  *)
(* follows in the run.                                                     *)
(***************************************************************************)
ChangeSourceFailed ==
    \/ FailedCall("git rev-parse") /\ repo.revs >= 1
    \/ FailedCall("git rev-list")
    \/ FailedCall("git diff")

LaterStages == Requests \cup Phases \cup {"write infra.tf"}

C11_ChangeSourceErrorIsFatal ==
    ChangeSourceFailed => \A i \in 1..Len(calls) : calls[i].cmd \notin LaterStages

(***************************************************************************)
(* C12: when the Analyzer returns the empty recipe the run ends there: no  *)
(* synthesis request, the artifact file as it was, no init, plan or apply. *)
(***************************************************************************)
C12_EmptyRecipeSkips ==
    (HasCall("POST analyze") /\ recipe = EmptyRecipe) =>
        /\ pc = "exited"
        /\ ~HasCall("POST synthesize")
        /\ ~HasCall("write infra.tf")
        /\ \A ph \in Phases : ~HasCall(ph)
        /\ artifact = artifact_before

\* the service answered `[]` to a request that carried changes
C12_Witness ==
    /\ pc = "exited"
    /\ changes # <<>>
    /\ analysis_resp = [kind |-> "content", content |-> [json |-> TRUE, value |-> JArray(<<>>)]]
    /\ calls[Len(calls)].cmd = "POST analyze"

(***************************************************************************)
(* C13: on a transport failure, an HTTP error status, a response without   *)
(* content, or a content that is empty or only whitespace,                 *)
(* synthesize_infra_with_deepseek returns the empty string, and the run    *)
(* ends there with the artifact file as it was and no init, plan or apply. *)
(***************************************************************************)
Blank(text) == \A i \in 1..Len(text) : text[i] \in {" ", NL, TAB}

SynthesisDegraded ==
    /\ HasCall("POST synthesize")
    /\ synth_resp.kind = "content" => Blank(synth_resp.content)

C13_EmptySynthesisSkips ==
    SynthesisDegraded =>
        /\ terraform_code = <<>>
        /\ pc = "exited"
        /\ raised = NoError
        /\ ~HasCall("write infra.tf")
        /\ \A ph \in Phases : ~HasCall(ph)
        /\ artifact = artifact_before

\* the service answered with a content of whitespace only
C13_Witness ==
    /\ pc = "exited"
    /\ synth_resp.kind = "content"
    /\ synth_resp.content # <<>>
    /\ Blank(synth_resp.content)

(***************************************************************************)
(* C14: when write_terraform_code fails, no init, plan or apply follows,   *)
(* the write is not tried again, and the error reaches main(), which       *)
(* reports it and ends the run.                                            *)
(***************************************************************************)
C14_WriteFailureIsFatal ==
    FailedCall("write infra.tf") =>
        /\ pc = "exited"
        /\ \A ph \in Phases : ~HasCall(ph)
        /\ CountCalls("write infra.tf") = 1
        /\ raised.type = "OSError"

\* the file was opened and the write failed
C14_Witness ==
    /\ pc = "exited"
    /\ FailedCall("write infra.tf")
    /\ raised = [type |-> "OSError", msg |-> "write_failed"]

(***************************************************************************)
(* C15: on a run where every stage succeeds, the stages after the change   *)
(* source are analyze, synthesize, write, init, plan, apply, once each and *)
(* in this order, the run is completed and the exit status is 0.           *)
(***************************************************************************)
StageCalls == SelectSeq(calls, LAMBDA c : c.cmd \in LaterStages)

HappyPath ==
    /\ VerificationPassed
    /\ OkCall("write infra.tf")
    /\ \A ph \in Phases : OkCall(ph)

C15_HappyPathOrder ==
    /\ OkCall("terraform apply") => HappyPath
    /\ HappyPath =>
        /\ StageCalls = <<Call("POST analyze", TRUE), Call("POST synthesize", TRUE),
                          Call("write infra.tf", TRUE), Call("terraform init", TRUE),
                          Call("terraform plan", TRUE), Call("terraform apply", TRUE)>>
        /\ completed
        /\ pc = "exited"
        /\ exit_status = 0

\* a completed run on a diff of two changed paths
C15_Witness ==
    /\ completed
    /\ Len(repo.paths) = 2
    /\ changes = repo.paths
    /\ artifact = terraform_code

(***************************************************************************)
(* C17: sanity_checks() checks terraform, then git, then the credential,   *)
(* and stops at the first check that fails: the error is that check's, no  *)
(* later check is run, the kinds of failure give different errors, and it  *)
(* succeeds exactly when both tools work and the credential is set, not    *)
(* blank and starts with "sk-".                                            *)
(***************************************************************************)
\* the first failing check, from the environment alone
FirstFailure ==
    IF env_tools.terraform # "ok" THEN <<"terraform", env_tools.terraform>>
    ELSE IF env_tools.git # "ok" THEN <<"git", env_tools.git>>
    ELSE IF env_key = None THEN <<"credential", "missing">>
    ELSE IF Blank(env_key) THEN <<"credential", "blank">>
    ELSE IF env_key[1] # "sk-" THEN <<"credential", "malformed">>
    ELSE <<"none", "">>

FailureKinds ==
    {<<"terraform", "failed">>, <<"terraform", "missing">>, <<"git", "failed">>,
     <<"git", "missing">>, <<"credential", "missing">>, <<"credential", "blank">>,
     <<"credential", "malformed">>}

\* the error each kind of failure is reported with
ErrorOf(kind) ==
    CASE kind = <<"terraform", "failed">> ->
            [type |-> "EnvironmentError", msg |-> "Terraform is installed but the command failed"]
      [] kind = <<"terraform", "missing">> ->
            [type |-> "EnvironmentError", msg |-> "Terraform is not installed or not found in the PATH."]
      [] kind = <<"git", "failed">> ->
            [type |-> "EnvironmentError", msg |-> "Git is installed but the command failed"]
      [] kind = <<"git", "missing">> ->
            [type |-> "EnvironmentError", msg |-> "Git is not installed or not found in the PATH."]
      [] kind = <<"credential", "missing">> ->
            [type |-> "ValueError", msg |-> "The DEEPSEEK_API_KEY is not set in the environment."]
      [] kind = <<"credential", "blank">> ->
            [type |-> "ValueError", msg |-> "The DEEPSEEK_API_KEY is empty."]
      [] kind = <<"credential", "malformed">> ->
            [type |-> "ValueError", msg |-> "The DEEPSEEK_API_KEY is not in the correct format."]

ChecksRun == SelectSeq(calls, LAMBDA c : c.cmd \in VersionChecks)

C17_SanityChecksFailFast ==
    /\ \A k1 \in FailureKinds, k2 \in FailureKinds : k1 # k2 => ErrorOf(k1) # ErrorOf(k2)
    /\ pc # "sanity_checks" =>
        IF FirstFailure = <<"none", "">>
        THEN /\ pc = "get_git_changes" \/ VerificationPassed
             /\ \A k \in FailureKinds : raised # ErrorOf(k)
             /\ ChecksRun = <<Call("terraform -version", TRUE), Call("git --version", TRUE)>>
        ELSE /\ pc = "exited"
             /\ raised = ErrorOf(FirstFailure)
             /\ ~VerificationPassed
             /\ calls = IF FirstFailure[1] = "terraform"
                        THEN <<Call("terraform -version", FALSE)>>
                        ELSE <<Call("terraform -version", TRUE),
                               Call("git --version", FirstFailure[1] # "git")>>

\* terraform fails while git is missing too: the error is terraform's, git is not run
C17_Witness ==
    /\ pc = "exited"
    /\ env_tools = [terraform |-> "failed", git |-> "missing"]
    /\ raised.msg = "Terraform is installed but the command failed"
    /\ Len(calls) = 1

(***************************************************************************)
(* C20: a call of analyze_changes_with_deepseek issues one request, whose  *)
(* payload holds every descriptor of `changes` once and in order; a run    *)
(* issues at most one synthesis request, and only after the analysis       *)
(* returned a recipe that is not empty.                                    *)
(***************************************************************************)
AnalysisReturned ==
    pc \in {"synthesize", "write", "init", "plan", "apply"} \/ (pc = "exited" /\ GitReturned)

C20_OneRequestWithAllDescriptors ==
    /\ CountCalls("POST analyze") = IF AnalysisReturned THEN 1 ELSE 0
    /\ AnalysisReturned =>
          IF changes = <<>> THEN payload = <<>> ELSE SplitLines(payload) = changes
    /\ CountCalls("POST synthesize") <= 1
    /\ \A i \in 1..Len(calls) :
          calls[i].cmd = "POST synthesize" =>
              /\ \E j \in 1..(i - 1) : calls[j].cmd = "POST analyze"
              /\ recipe # EmptyRecipe /\ Truthy(recipe)

\* the request for a diff of two different changed paths failed and was not repeated
C20_Witness ==
    /\ pc = "exited"
    /\ Len(changes) = 2
    /\ changes[1] # changes[2]
    /\ FailedCall("POST analyze")
    /\ CountCalls("POST analyze") = 1

(***************************************************************************)
(* C16 as claimed: after any sequence of runs, infra.tf holds the text of  *)
(* the most recent successful write.                                       *)
(***************************************************************************)
C16_ArtifactIsLastSuccessfulWrite ==
    last_write.text # NoFile => artifact = last_write.text

(***************************************************************************)
(* C16 as amended: after any sequence of runs, when the latest write of    *)
(* infra.tf succeeded the file holds exactly the text of that write and    *)
(* nothing of its previous content.                                        *)
(***************************************************************************)
C16_ArtifactIsLatestWrite ==
    /\ last_write.latest_ok => artifact = last_write.text
    /\ OkCall("write infra.tf") => artifact = terraform_code

\* a second run has overwritten the text that the first run wrote
C16_Witness ==
    /\ run = 2
    /\ OkCall("write infra.tf")
    /\ artifact_before # NoFile
    /\ artifact_before # <<>>
    /\ artifact # artifact_before

(***************************************************************************)
(* C18: in infraai.py, `terraform apply` is invoked only after a           *)
(* `terraform init` of the same run that succeeded.                        *)
(***************************************************************************)
C18_ApplyOnlyAfterInit ==
    \A i \in 1..Len(calls) :
        calls[i].cmd = "terraform apply" =>
            \E j \in 1..(i - 1) : calls[j] = Call("terraform init", TRUE)

(***************************************************************************)
(* C19: in infraai.py, when the synthesis fails (the request, or the write *)
(* of main.tf) neither init nor apply is invoked in the run.               *)
(***************************************************************************)
C19_SynthesisFailureSkips ==
    (FailedCall("POST synthesize") \/ FailedCall("write main.tf")) =>
        \A ph \in Phases : ~HasCall(ph)

(***************************************************************************)
(* C21: for every prefix and every suffix length from 0, the name that     *)
(* generate_s3_bucket_name returns has 3 to 63 characters, all of them     *)
(* lowercase letters, digits or hyphens, and begins and ends with a letter *)
(* or a digit.                                                             *)
(***************************************************************************)
NameChars == {"a", "b", "z", "0", "9", "-"}

C21_ValidBucketName ==
    pc = "bucket_named" =>
        /\ Len(bucket_name) >= 3
        /\ Len(bucket_name) <= 63
        /\ \A i \in 1..Len(bucket_name) : bucket_name[i] \in NameChars
        /\ bucket_name[1] # "-"
        /\ bucket_name[Len(bucket_name)] # "-"

====
